---- MODULE Spec2Model ----
(***************************************************************************)
(* Model of the wallet / transaction ledger (src/src/wallet.rs) and of the *)
(* bandwidth monitoring loop that credits rewards (src/src/bandwidth.rs).  *)
(*                                                                         *)
(* Decimal quantities (f64 balances, amounts, fees, rewards, reward rate)  *)
(* are fixed-point integers counted in units of 0.0001.  Byte counts are   *)
(* plain byte counts.  Time stamps (Utc::now()) are read from the logical  *)
(* clock `now`, which advances every time an interval timer fires.         *)
(***************************************************************************)
EXTENDS Integers, Sequences, FiniteSets, TLC

\* ------------------------------------------------------------------ bounds
MaxWallets == 2      \* wallets ever created
MaxTx      == 2      \* transactions ever created
MaxTicks   == 2      \* interval timer firings (all loops together)
MaxConfirm == 2      \* completed Confirmed status updates

\* ------------------------------------------------------- program constants
MiB                  == 1048576   \* 1024 * 1024
DefaultRewardRate    == 1         \* 0.0001 per MB
DefaultMinBandwidth  == 1048576   \* 1024 * 1024
IntervalSecs         == 60        \* Duration::from_secs(60)
ExampleFee           == 10        \* Some(0.001)

\* Option<T>: None is the empty sequence, Some(x) a one-element sequence
None == <<>>
Some(x) == <<x>>
\* an RwLock nobody holds for writing
Free == 0

\* --------------------------------------------------------------- inputs
LoopIds      == {1}
\* 32-byte ed25519 public keys, cut down to one byte
PublicKeys   == {<<10>>, <<160>>}
\* what a create_wallet call is given (the currency) and draws (the key)
WalletInputs == {[currency_type |-> "Bitcoin",  key |-> <<10>>],
                 [currency_type |-> "Ethereum", key |-> <<160>>]}
\* amounts a caller may ask to transfer
Amounts      == {-1, 0, 1, 2}
\* the amounts asked for where transactions are confirmed
ConfirmAmounts == {-1, 2}
\* balances a caller may set through update_wallet_balance
Balances     == {2}
\* balances a caller may set where nothing else moves them
AnyBalances  == {-1, 0, 2}
\* reward rates and thresholds a caller may try to set
Rates        == {-1, 0}
\* reward rates set while a loop is running
LaterRates   == {0, 2}
MinBandwidths == {0, 2 * MiB}
Statuses     == {"Pending", "Confirmed", "Failed"}

VARIABLES
    wallets,        \* WalletManager.wallets : HashMap<Uuid, Wallet>
    nextWalletId,   \* the next Uuid::new_v4() handed to a wallet
    transactions,   \* WalletManager.transactions : Vec<Transaction>
    txLock,         \* 1 while the transactions RwLock is held for writing, else Free
    uts,            \* the update_transaction_status call in flight
    metrics,        \* BandwidthManager.metrics : BandwidthMetrics
    metricsLock,    \* loop id holding the metrics RwLock for writing, else Free
    reward_rate,    \* BandwidthManager.reward_rate
    min_bandwidth,  \* BandwidthManager.min_bandwidth
    loops,          \* the tasks spawned by start_monitoring
    now,            \* logical clock behind Utc::now()
    ret,            \* what the last read-only call returned
    confirmations,  \* history: number of completed Confirmed status updates
    sampleLog,      \* history: the samples each loop has measured
    committed,      \* history: metrics as the last finished tick left them
    held,           \* Wallet values callers keep from earlier get_wallet calls
    ledger,         \* history: each stored wallet's balance, had every write
                    \* been applied to the balance stored at that moment
    staleTx         \* history: ids of transactions created from a Wallet value
                    \* that was not the stored one

vars == <<wallets, nextWalletId, transactions, txLock, uts, metrics,
          metricsLock, reward_rate, min_bandwidth, loops, now,
          ret, confirmations, sampleLog, committed, held, ledger, staleTx>>

ledgerVars  == <<wallets, nextWalletId, transactions, txLock, uts, held>>
engineVars  == <<metrics, metricsLock, reward_rate, min_bandwidth, loops, now>>
historyVars == <<confirmations, sampleLog, committed, ledger, staleTx>>

\* ------------------------------------------------------------- helpers
RECURSIVE SumSeq(_)
SumSeq(s) == IF s = <<>> THEN 0 ELSE Head(s) + SumSeq(Tail(s))

HexDigitDecimal(n) ==
    <<"0","1","2","3","4","5","6","7","8","9","0","1","2","3","4","5">>[n + 1]

HexDigit(n) ==
    <<"0","1","2","3","4","5","6","7","8","9","a","b","c","d","e","f">>[n + 1]

\* hex::encode: two lower-case digits per byte, high nibble first
RECURSIVE HexEncode(_)
HexEncode(bytes) ==
    IF bytes = <<>> THEN <<>>
    ELSE <<HexDigit(Head(bytes) \div 16), HexDigit(Head(bytes) % 16)>>
         \o HexEncode(Tail(bytes))

\* an address that belongs to no wallet of the store
ExternalAddress == <<"f", "f">>
\* addresses a caller may name as recipient
Addresses == {HexEncode(<<10>>), ExternalAddress}

\* addresses a caller may ask the history of
HistoryAddresses == Addresses \cup {HexEncode(<<160>>)}

\* Option::unwrap_or
UnwrapOr(opt, default) == IF opt = None THEN default ELSE opt[1]

\* transactions.iter_mut().find(|t| t.id == transaction_id): index or 0
FindTx(txs, transaction_id) ==
    IF \E i \in 1..Len(txs) : txs[i].id = transaction_id
    THEN CHOOSE i \in 1..Len(txs) :
            /\ txs[i].id = transaction_id
            /\ \A j \in 1..(i - 1) : txs[j].id # transaction_id
    ELSE 0

DebitNoFee(balance, t) == balance - t.amount

\* wallet.balance -= transaction.amount + transaction.fee.unwrap_or(0.0)
Debit(balance, t) == balance - (t.amount + UnwrapOr(t.fee, 0))

DebitSendersFromCreation(ws, t) ==
    [id \in DOMAIN ws |->
        IF ws[id].address = t.from_wallet
        THEN [ws[id] EXCEPT !.balance = Debit(0, t)]
        ELSE ws[id]]

\* the loop over wallets.values_mut() of update_transaction_status: each
\* balance is read and written in place under the one wallets write guard
DebitSenders(ws, t) ==
    [id \in DOMAIN ws |->
        IF ws[id].address = t.from_wallet
        THEN [ws[id] EXCEPT !.balance = Debit(ws[id].balance, t)]
        ELSE ws[id]]

TriggersDebitOnce(previous, status) ==
    status = "Confirmed" /\ previous # "Confirmed"

TriggersDebitNotPending(previous, status) == status # "Pending"

\* if status == TransactionStatus::Confirmed; the status the transaction
\* had before the call plays no part
TriggersDebit(previous, status) == status = "Confirmed"

CreateTransactionResultStored(from_wallet, amount) ==
    IF amount <= 0 THEN "InvalidInput"
    ELSE IF from_wallet.id \notin DOMAIN wallets THEN "InvalidInput"
    ELSE IF wallets[from_wallet.id].balance < amount THEN "InvalidInput"
    ELSE "Ok"

CreateTransactionResultStrict(from_wallet, amount) ==
    IF amount <= 0 THEN "InvalidInput"
    ELSE IF from_wallet.balance <= amount THEN "InvalidInput"
    ELSE "Ok"

\* the two early returns of create_transaction; from_wallet is the &Wallet
\* the caller passes
CreateTransactionResult(from_wallet, amount) ==
    IF amount <= 0 THEN "InvalidInput"
    ELSE IF from_wallet.balance < amount THEN "InvalidInput"
    ELSE "Ok"

NewTransactionNoFee(id, from_wallet, to_address, amount) ==
    [id |-> id, from_wallet |-> from_wallet.address, to_wallet |-> to_address,
     amount |-> amount, currency_type |-> from_wallet.currency_type,
     timestamp |-> now, status |-> "Pending", fee |-> None]

\* the Transaction create_transaction builds
NewTransaction(id, from_wallet, to_address, amount) ==
    [id |-> id, from_wallet |-> from_wallet.address, to_wallet |-> to_address,
     amount |-> amount, currency_type |-> from_wallet.currency_type,
     timestamp |-> now, status |-> "Pending", fee |-> Some(ExampleFee)]

\* get_wallet: Some(wallet) for Ok, None for NotFound
GetWallet(ws, id) == IF id \in DOMAIN ws THEN Some(ws[id]) ELSE None

SetBalanceFloor(ws, wallet_id, new_balance) ==
    IF wallet_id \in DOMAIN ws
    THEN [ws EXCEPT ![wallet_id].balance =
                       IF new_balance < 0 THEN 0 ELSE new_balance]
    ELSE ws

\* the store after update_wallet_balance
SetBalance(ws, wallet_id, new_balance) ==
    IF wallet_id \in DOMAIN ws
    THEN [ws EXCEPT ![wallet_id].balance = new_balance]
    ELSE ws

ApplyRewardAtomic(ws, wallet_id, balance, reward) ==
    IF wallet_id \in DOMAIN ws
    THEN [ws EXCEPT ![wallet_id].balance = @ + reward]
    ELSE ws

\* let new_balance = wallet.balance + reward;
\* let _ = wallet_manager.update_wallet_balance(wallet_id, new_balance).await;
\* balance is the balance of the Wallet value get_wallet returned earlier
ApplyReward(ws, wallet_id, balance, reward) ==
    SetBalance(ws, wallet_id, balance + reward)

RewardFlat(bytes, rate) == rate

\* mb_shared * reward_rate, mb_shared = bytes / (1024 * 1024)
Reward(bytes, rate) == (bytes * rate) \div MiB

MeetsMinimumStrict(bytes, min) == bytes > min

\* bytes_this_interval >= min_bandwidth
MeetsMinimum(bytes, min) == bytes >= min

\* rng.gen_range(1_048_576..10_485_760), cut down to whole MiB
MeasureBandwidth == {MiB, 2 * MiB}

AccumulateReplace(total, bytes) == bytes

\* current_metrics.total_bytes_shared += bytes_this_interval
Accumulate(total, bytes) == total + bytes

NextIterationBreaks == "done"

\* where a loop task stands after an iteration of `loop { .. }`, whichever
\* way the iteration ended: back at interval.tick().await
NextIteration == "tick"

SetStatusDropFee(txs, idx, status) ==
    [txs EXCEPT ![idx].status = status, ![idx].fee = None]

\* transaction.status = status
SetStatus(txs, idx, status) == [txs EXCEPT ![idx].status = status]

RemoveWalletAll(ws, wallet_id) == <<>>

\* wallets.remove(&wallet_id), the wallet being stored
RemoveWallet(ws, wallet_id) ==
    [id \in DOMAIN ws \ {wallet_id} |-> ws[id]]

\* the Result of delete_wallet and of update_wallet_balance
FoundResult(ws, wallet_id) ==
    IF wallet_id \in DOMAIN ws THEN "Ok" ELSE "NotFound"

\* transactions.iter().filter(|t| t.from_wallet == wallet_address
\*                               || t.to_wallet == wallet_address).collect()
TransactionHistorySent(txs, wallet_address) ==
    SelectSeq(txs, LAMBDA t : t.from_wallet = wallet_address)

RECURSIVE TransactionHistory(_, _)
TransactionHistory(txs, wallet_address) ==
    IF txs = <<>> THEN <<>>
    ELSE (IF Head(txs).from_wallet = wallet_address
             \/ Head(txs).to_wallet = wallet_address
          THEN <<Head(txs)>> ELSE <<>>)
         \o TransactionHistory(Tail(txs), wallet_address)

TotalRewardsAtDefault(total_bytes_shared, rate) ==
    (total_bytes_shared * DefaultRewardRate) \div MiB

\* total_mb * self.reward_rate, total_mb = total_bytes_shared / (1024 * 1024)
TotalRewards(total_bytes_shared, rate) ==
    (total_bytes_shared * rate) \div MiB

DropGuardLeaks(lock) == lock

\* a write guard goes out of scope: at the end of the loop iteration for the
\* metrics, at the return of update_transaction_status for the log
DropGuard(lock) == Free

\* current_speed * 3600 / (1024 * 1024) * self.reward_rate, current_speed
\* being bytes per second; the division by 1024 * 1024 is taken in two
\* halves to stay within the integers at hand
EstimatedHourlyRewards(current_speed, rate) ==
    (((((current_speed.bytes \div 1024) * 3600) \div current_speed.secs)
        * rate) \div 1024)

LoopRateLive(loop) == reward_rate

\* the reward_rate the spawned task owns: the copy start_monitoring took
LoopRate(loop) == loop.reward_rate

\* the min_bandwidth the spawned task owns
LoopMinBandwidth(loop) == loop.min_bandwidth

CanReadAnyTime(lock) == TRUE

\* metrics.read().await / transactions.read().await return: no writer holds
\* the lock
CanRead(lock) == lock = Free

UpdateRewardRateResultStrict(new_rate) ==
    IF new_rate <= 0 THEN "InvalidInput" ELSE "Ok"

\* the early return of update_reward_rate
UpdateRewardRateResult(new_rate) ==
    IF new_rate < 0 THEN "InvalidInput" ELSE "Ok"

\* the early return of update_min_bandwidth
UpdateMinBandwidthResult(new_min) ==
    IF new_min = 0 THEN "InvalidInput" ELSE "Ok"

\* nothing returned yet by any read-only call
NoReturn == [get_metrics |-> None, get_transaction_history |-> None,
             calculate_total_rewards |-> None,
             get_estimated_hourly_rewards |-> None]

IdleLoop == [pc |-> "idle", wallet_id |-> 0, reward_rate |-> 0,
             min_bandwidth |-> 0, bytes_this_interval |-> 0, balance |-> 0]

IdleCall == [pc |-> "idle", idx |-> 0, status |-> "Pending", previous |-> "Pending"]

\* ids a caller can name: every id handed out so far, and one that never was
KnownIds == 0..(nextWalletId - 1)

\* Wallet values a caller passes: what get_wallet or list_wallets return now
CallerWallets == {wallets[id] : id \in DOMAIN wallets}

\* ---------------------------------------------------------------- Init
Init ==
    /\ wallets = <<>>
    /\ nextWalletId = 1
    /\ transactions = <<>>
    /\ txLock = Free
    /\ uts = IdleCall
    /\ metrics = [total_bytes_shared |-> 0,
                  current_speed |-> [bytes |-> 0, secs |-> IntervalSecs],
                  uptime |-> 0, last_reward |-> None, start_time |-> 0]
    /\ metricsLock = Free
    /\ reward_rate = DefaultRewardRate
    /\ min_bandwidth = DefaultMinBandwidth
    /\ loops = [l \in LoopIds |-> IdleLoop]
    /\ now = 0
    /\ ret = NoReturn
    /\ confirmations = 0
    /\ sampleLog = [l \in LoopIds |-> <<>>]
    /\ committed = metrics
    /\ held = {}
    /\ ledger = <<>>
    /\ staleTx = {}

\* ------------------------------------------------------ Ledger Store
CreateWallet(currency_type, key) ==
    /\ nextWalletId <= MaxWallets
    /\ LET wallet == [id |-> nextWalletId, address |-> HexEncode(key),
                      public_key |-> key, currency_type |-> currency_type,
                      balance |-> 0]
       IN wallets' = [id \in DOMAIN wallets \cup {wallet.id} |->
                         IF id = wallet.id THEN wallet ELSE wallets[id]]
    /\ nextWalletId' = nextWalletId + 1
    /\ ledger' = [id \in DOMAIN ledger \cup {nextWalletId} |->
                     IF id = nextWalletId THEN 0 ELSE ledger[id]]
    /\ UNCHANGED <<transactions, txLock, uts, held>>
    /\ UNCHANGED engineVars
    /\ UNCHANGED <<confirmations, sampleLog, committed, staleTx>>
    /\ UNCHANGED ret

CreateTransaction(from_wallet, to_address, amount) ==
    /\ IF CreateTransactionResult(from_wallet, amount) = "Ok"
       THEN /\ txLock = Free
            /\ Len(transactions) < MaxTx
            /\ transactions' = Append(transactions,
                   NewTransaction(Len(transactions) + 1, from_wallet,
                                  to_address, amount))
            /\ staleTx' = IF GetWallet(wallets, from_wallet.id) = Some(from_wallet)
                           THEN staleTx
                           ELSE staleTx \cup {Len(transactions) + 1}
       ELSE UNCHANGED <<transactions, staleTx>>
    /\ UNCHANGED <<wallets, nextWalletId, txLock, uts, held>>
    /\ UNCHANGED engineVars
    /\ UNCHANGED <<confirmations, sampleLog, committed, ledger>>
    /\ UNCHANGED ret

\* update_transaction_status up to the point where it either returns or
\* waits for the wallets lock with the transactions lock held
UpdateTransactionStatus(transaction_id, status) ==
    /\ uts.pc = "idle"
    /\ txLock = Free
    /\ status = "Confirmed" => confirmations < MaxConfirm
    /\ LET idx == FindTx(transactions, transaction_id)
       IN IF idx = 0
          THEN UNCHANGED <<transactions, txLock, uts, confirmations>>
          ELSE /\ transactions' = SetStatus(transactions, idx, status)
               /\ IF TriggersDebit(transactions[idx].status, status)
                  THEN /\ txLock' = 1
                       /\ uts' = [pc |-> "wallets", idx |-> idx, status |-> status,
                                  previous |-> transactions[idx].status]
                       /\ UNCHANGED confirmations
                  ELSE /\ confirmations' = IF status = "Confirmed"
                                           THEN confirmations + 1
                                           ELSE confirmations
                       /\ UNCHANGED <<txLock, uts>>
    /\ UNCHANGED <<wallets, nextWalletId, held, sampleLog, committed, ledger,
                   staleTx, ret>>
    /\ UNCHANGED engineVars

\* the rest of update_transaction_status: take the wallets lock, debit
\* the senders, return
ConfirmDebit ==
    /\ uts.pc = "wallets"
    /\ wallets' = DebitSenders(wallets, transactions[uts.idx])
    /\ ledger' = [id \in DOMAIN ledger |->
                     IF wallets[id].address = transactions[uts.idx].from_wallet
                     THEN ledger[id] - (transactions[uts.idx].amount
                              + UnwrapOr(transactions[uts.idx].fee, 0))
                     ELSE ledger[id]]
    /\ confirmations' = IF uts.status = "Confirmed"
                        THEN confirmations + 1
                        ELSE confirmations
    /\ txLock' = DropGuard(txLock)
    /\ uts' = IdleCall
    /\ UNCHANGED <<nextWalletId, transactions, held, sampleLog, committed,
                   staleTx, ret>>
    /\ UNCHANGED engineVars

UpdateWalletBalance(wallet_id, new_balance) ==
    /\ wallets' = SetBalance(wallets, wallet_id, new_balance)
    /\ ledger' = IF wallet_id \in DOMAIN ledger
                 THEN [ledger EXCEPT ![wallet_id] = new_balance]
                 ELSE ledger
    /\ UNCHANGED <<nextWalletId, transactions, txLock, uts, held>>
    /\ UNCHANGED engineVars
    /\ UNCHANGED <<confirmations, sampleLog, committed, staleTx>>
    /\ UNCHANGED ret

DeleteWallet(wallet_id) ==
    /\ IF FoundResult(wallets, wallet_id) = "Ok"
       THEN wallets' = RemoveWallet(wallets, wallet_id)
       ELSE UNCHANGED wallets
    /\ ledger' = [id \in DOMAIN ledger \ {wallet_id} |-> ledger[id]]
    /\ UNCHANGED <<nextWalletId, transactions, txLock, uts, held>>
    /\ UNCHANGED engineVars
    /\ UNCHANGED <<confirmations, sampleLog, committed, staleTx>>
    /\ UNCHANGED ret

\* get_wallet(wallet_id) returns Ok(wallet.clone()) and the caller keeps the
\* value
HoldWallet(wallet_id) ==
    /\ GetWallet(wallets, wallet_id) # None
    /\ held' = {GetWallet(wallets, wallet_id)[1]}
    /\ UNCHANGED <<wallets, nextWalletId, transactions, txLock, uts>>
    /\ UNCHANGED engineVars
    /\ UNCHANGED historyVars
    /\ UNCHANGED ret

\* get_transaction_history: a copy of the matching transactions, taken under
\* the read lock of the log
GetTransactionHistory(wallet_address) ==
    /\ CanRead(txLock)
    /\ ret' = [NoReturn EXCEPT !.get_transaction_history =
                   Some(TransactionHistory(transactions, wallet_address))]
    /\ UNCHANGED ledgerVars
    /\ UNCHANGED engineVars
    /\ UNCHANGED historyVars

\* ------------------------------------------------ Reward Accrual Engine
\* get_metrics: a clone of the metrics, taken under the read lock
GetMetrics ==
    /\ CanRead(metricsLock)
    /\ ret' = [NoReturn EXCEPT !.get_metrics = Some(metrics)]
    /\ UNCHANGED ledgerVars
    /\ UNCHANGED engineVars
    /\ UNCHANGED historyVars

CalculateTotalRewards ==
    /\ CanRead(metricsLock)
    /\ ret' = [NoReturn EXCEPT !.calculate_total_rewards =
                   Some(TotalRewards(metrics.total_bytes_shared, reward_rate))]
    /\ UNCHANGED ledgerVars
    /\ UNCHANGED engineVars
    /\ UNCHANGED historyVars

GetEstimatedHourlyRewards ==
    /\ CanRead(metricsLock)
    /\ ret' = [NoReturn EXCEPT !.get_estimated_hourly_rewards =
                   Some(EstimatedHourlyRewards(metrics.current_speed, reward_rate))]
    /\ UNCHANGED ledgerVars
    /\ UNCHANGED engineVars
    /\ UNCHANGED historyVars

UpdateRewardRate(new_rate) ==
    /\ IF UpdateRewardRateResult(new_rate) = "InvalidInput"
       THEN UNCHANGED reward_rate
       ELSE reward_rate' = new_rate
    /\ UNCHANGED <<metrics, metricsLock, min_bandwidth, loops, now>>
    /\ UNCHANGED ledgerVars
    /\ UNCHANGED historyVars
    /\ UNCHANGED ret

UpdateMinBandwidth(new_min) ==
    /\ IF UpdateMinBandwidthResult(new_min) = "InvalidInput"
       THEN UNCHANGED min_bandwidth
       ELSE min_bandwidth' = new_min
    /\ UNCHANGED <<metrics, metricsLock, reward_rate, loops, now>>
    /\ UNCHANGED ledgerVars
    /\ UNCHANGED historyVars
    /\ UNCHANGED ret

StartMonitoring(l, wallet_id) ==
    /\ loops[l].pc = "idle"
    /\ loops' = [loops EXCEPT ![l] =
                    [IdleLoop EXCEPT !.pc = "tick",
                                     !.wallet_id = wallet_id,
                                     !.reward_rate = reward_rate,
                                     !.min_bandwidth = min_bandwidth]]
    /\ UNCHANGED <<metrics, metricsLock, reward_rate, min_bandwidth, now>>
    /\ UNCHANGED ledgerVars
    /\ UNCHANGED historyVars
    /\ UNCHANGED ret

TickFireOverlapping(l) ==
    /\ loops[l].pc \in {"tick", "measure", "get_wallet", "update"}
    /\ now < MaxTicks
    /\ now' = now + 1
    /\ loops' = [loops EXCEPT ![l].pc = "write"]
    /\ UNCHANGED <<metrics, metricsLock, reward_rate, min_bandwidth>>
    /\ UNCHANGED ledgerVars
    /\ UNCHANGED historyVars
    /\ UNCHANGED ret

\* interval.tick().await returns: the one task of the loop is back at the
\* top of `loop { .. }`
TickFire(l) ==
    /\ loops[l].pc = "tick"
    /\ now < MaxTicks
    /\ now' = now + 1
    /\ loops' = [loops EXCEPT ![l].pc = "write"]
    /\ UNCHANGED <<metrics, metricsLock, reward_rate, min_bandwidth>>
    /\ UNCHANGED ledgerVars
    /\ UNCHANGED historyVars
    /\ UNCHANGED ret

\* metrics.write().await returns
TickLock(l) ==
    /\ loops[l].pc = "write"
    /\ metricsLock = Free
    /\ metricsLock' = l
    /\ loops' = [loops EXCEPT ![l].pc = "measure"]
    /\ UNCHANGED <<metrics, reward_rate, min_bandwidth, now>>
    /\ UNCHANGED ledgerVars
    /\ UNCHANGED historyVars
    /\ UNCHANGED ret

\* measure_bandwidth().await returns; counters updated; threshold test
TickMeasure(l, bytes) ==
    /\ loops[l].pc = "measure"
    /\ metrics' = [metrics EXCEPT
                      !.total_bytes_shared = Accumulate(@, bytes),
                      !.current_speed = [bytes |-> bytes, secs |-> IntervalSecs],
                      !.uptime = @ + IntervalSecs]
    /\ sampleLog' = [sampleLog EXCEPT ![l] = Append(@, bytes)]
    /\ IF MeetsMinimum(bytes, LoopMinBandwidth(loops[l]))
       THEN /\ loops' = [loops EXCEPT ![l].pc = "get_wallet",
                                      ![l].bytes_this_interval = bytes]
            /\ UNCHANGED <<metricsLock, committed>>
       ELSE /\ loops' = [loops EXCEPT ![l].pc = NextIteration]
            /\ metricsLock' = DropGuard(metricsLock)
            /\ committed' = metrics'
    /\ UNCHANGED <<reward_rate, min_bandwidth, now>>
    /\ UNCHANGED ledgerVars
    /\ UNCHANGED <<confirmations, ledger, staleTx, ret>>

\* wallet_manager.get_wallet(wallet_id).await returns
TickGetWallet(l) ==
    /\ loops[l].pc = "get_wallet"
    /\ LET wallet == GetWallet(wallets, loops[l].wallet_id)
       IN IF wallet # None
          THEN /\ loops' = [loops EXCEPT ![l].pc = "update",
                                         ![l].balance = wallet[1].balance]
               /\ UNCHANGED <<metricsLock, committed>>
          ELSE /\ loops' = [loops EXCEPT ![l].pc = NextIteration,
                                         ![l].bytes_this_interval = 0]
               /\ metricsLock' = DropGuard(metricsLock)
               /\ committed' = metrics
    /\ UNCHANGED <<metrics, reward_rate, min_bandwidth, now>>
    /\ UNCHANGED ledgerVars
    /\ UNCHANGED <<confirmations, sampleLog, ledger, staleTx, ret>>

\* wallet_manager.update_wallet_balance(..).await returns and its result is
\* dropped; last_reward recorded; write guard dropped at the end of the
\* iteration
TickUpdate(l) ==
    /\ loops[l].pc = "update"
    /\ LET wallet_id   == loops[l].wallet_id
           reward      == Reward(loops[l].bytes_this_interval, LoopRate(loops[l]))
       IN /\ wallets' = ApplyReward(wallets, wallet_id, loops[l].balance, reward)
          /\ ledger' = IF wallet_id \in DOMAIN ledger
                       THEN [ledger EXCEPT ![wallet_id] = @ + reward]
                       ELSE ledger
    /\ metrics' = [metrics EXCEPT !.last_reward = Some(now)]
    /\ loops' = [loops EXCEPT ![l].pc = NextIteration,
                              ![l].bytes_this_interval = 0,
                              ![l].balance = 0]
    /\ metricsLock' = DropGuard(metricsLock)
    /\ committed' = metrics'
    /\ UNCHANGED <<reward_rate, min_bandwidth, now>>
    /\ UNCHANGED <<nextWalletId, transactions, txLock, uts, held>>
    /\ UNCHANGED <<confirmations, sampleLog, staleTx, ret>>

\* one step of a loop task whose measurements are drawn from samples
TickSampling(samples) ==
    \E l \in LoopIds :
        \/ TickFire(l)
        \/ TickLock(l)
        \/ \E bytes \in samples : TickMeasure(l, bytes)
        \/ TickGetWallet(l)
        \/ TickUpdate(l)

Tick == TickSampling(MeasureBandwidth)

LedgerNext ==
    \/ \E in \in WalletInputs : CreateWallet(in.currency_type, in.key)
    \/ \E id \in KnownIds : HoldWallet(id)
    \/ \E from_wallet \in CallerWallets \cup held, to \in Addresses,
          amount \in Amounts :
          CreateTransaction(from_wallet, to, amount)
    \/ \E tid \in 1..(MaxTx + 1), status \in Statuses :
          UpdateTransactionStatus(tid, status)
    \/ ConfirmDebit
    \/ \E id \in KnownIds, b \in Balances : UpdateWalletBalance(id, b)
    \/ \E id \in KnownIds : DeleteWallet(id)

EngineNext ==
    \/ \E r \in Rates : UpdateRewardRate(r)
    \/ \E m \in MinBandwidths : UpdateMinBandwidth(m)
    \/ \E l \in LoopIds, id \in KnownIds : StartMonitoring(l, id)
    \/ Tick

\* the calls that only read
ReadNext ==
    \/ \E a \in HistoryAddresses : GetTransactionHistory(a)
    \/ GetMetrics
    \/ CalculateTotalRewards
    \/ GetEstimatedHourlyRewards

Next == LedgerNext \/ EngineNext \/ ReadNext

Spec == Init /\ [][Next]_vars

\* creating transactions from funded, emptied and deleted wallets
CreateNext ==
    \/ \E in \in WalletInputs : CreateWallet(in.currency_type, in.key)
    \/ \E id \in KnownIds, b \in Balances : UpdateWalletBalance(id, b)
    \/ \E id \in KnownIds : DeleteWallet(id)
    \/ \E from_wallet \in CallerWallets, to \in Addresses, amount \in Amounts :
          CreateTransaction(from_wallet, to, amount)

SpecCreate == Init /\ [][CreateNext]_vars

\* the life of transactions sent to an address outside the store
ConfirmNext ==
    \/ \E in \in WalletInputs : CreateWallet(in.currency_type, in.key)
    \/ \E id \in KnownIds, b \in Balances : UpdateWalletBalance(id, b)
    \/ \E from_wallet \in CallerWallets, amount \in ConfirmAmounts :
          CreateTransaction(from_wallet, ExternalAddress, amount)
    \/ \E tid \in 1..(MaxTx + 1), status \in Statuses :
          UpdateTransactionStatus(tid, status)
    \/ ConfirmDebit
    \/ \E id \in KnownIds : DeleteWallet(id)

SpecConfirm == Init /\ [][ConfirmNext]_vars

\* confirmations of transactions whose sender wallet may have been deleted
DeletionNext ==
    \/ \E in \in WalletInputs : CreateWallet(in.currency_type, in.key)
    \/ \E id \in KnownIds, b \in Balances : UpdateWalletBalance(id, b)
    \/ \E id \in KnownIds : DeleteWallet(id)
    \/ \E from_wallet \in CallerWallets, amount \in ConfirmAmounts :
          CreateTransaction(from_wallet, ExternalAddress, amount)
    \/ \E tid \in 1..(MaxTx + 1) : UpdateTransactionStatus(tid, "Confirmed")
    \/ ConfirmDebit

SpecDeletion == Init /\ [][DeletionNext]_vars

\* the Reward Accrual Engine over wallets that are created and deleted
EngineStoreNext ==
    \/ \E in \in WalletInputs : CreateWallet(in.currency_type, in.key)
    \/ \E id \in KnownIds : DeleteWallet(id)
    \/ EngineNext

SpecEngine == Init /\ [][EngineStoreNext]_vars

\* balances moved by reward ticks and by confirmations only
AccrualNext ==
    \/ \E in \in WalletInputs : CreateWallet(in.currency_type, in.key)
    \/ \E from_wallet \in CallerWallets, amount \in ConfirmAmounts :
          CreateTransaction(from_wallet, ExternalAddress, amount)
    \/ \E tid \in 1..(MaxTx + 1), status \in Statuses :
          UpdateTransactionStatus(tid, status)
    \/ ConfirmDebit
    \/ \E l \in LoopIds, id \in KnownIds : StartMonitoring(l, id)
    \/ Tick

SpecAccrual == Init /\ [][AccrualNext]_vars

\* reward ticks racing with confirmations
RaceNext ==
    \/ CreateWallet("Bitcoin", <<10>>)
    \/ \E from_wallet \in CallerWallets, amount \in ConfirmAmounts :
          CreateTransaction(from_wallet, ExternalAddress, amount)
    \/ \E tid \in 1..(MaxTx + 1) : UpdateTransactionStatus(tid, "Confirmed")
    \/ ConfirmDebit
    \/ \E l \in LoopIds, id \in KnownIds : StartMonitoring(l, id)
    \/ Tick

SpecRace == Init /\ [][RaceNext]_vars

\* Ledger Store operations, get_metrics calls and ticks side by side, every
\* measurement being 2 MiB
LockNext ==
    \/ CreateWallet("Bitcoin", <<10>>)
    \/ \E from_wallet \in CallerWallets, amount \in ConfirmAmounts :
          CreateTransaction(from_wallet, ExternalAddress, amount)
    \/ \E tid \in 1..(MaxTx + 1) : UpdateTransactionStatus(tid, "Confirmed")
    \/ ConfirmDebit
    \/ \E l \in LoopIds, id \in KnownIds : StartMonitoring(l, id)
    \/ TickSampling({2 * MiB})
    \/ GetMetrics

\* the runtime keeps polling every task that can go on: the loop task (the
\* timer fires, measure_bandwidth returns, a free lock is granted) and the
\* caller of update_transaction_status waiting for the wallets lock
LiveLocks ==
    Init /\ [][LockNext]_vars
         /\ WF_vars(TickSampling({2 * MiB})) /\ WF_vars(ConfirmDebit)

\* rate and threshold changed under a running loop, and the estimates asked
\* for in between
CaptureNext ==
    \/ \E in \in WalletInputs : CreateWallet(in.currency_type, in.key)
    \/ \E r \in LaterRates : UpdateRewardRate(r)
    \/ \E m \in MinBandwidths : UpdateMinBandwidth(m)
    \/ \E l \in LoopIds, id \in KnownIds : StartMonitoring(l, id)
    \/ Tick
    \/ CalculateTotalRewards
    \/ GetEstimatedHourlyRewards

SpecCapture == Init /\ [][CaptureNext]_vars

\* transactions created from a Wallet value obtained earlier, the stored
\* wallet having been set or deleted since
StaleNext ==
    \/ CreateWallet("Bitcoin", <<10>>)
    \/ \E id \in KnownIds, v \in Balances : UpdateWalletBalance(id, v)
    \/ \E id \in KnownIds : DeleteWallet(id)
    \/ \E id \in KnownIds : HoldWallet(id)
    \/ \E from_wallet \in held, amount \in ConfirmAmounts :
          CreateTransaction(from_wallet, ExternalAddress, amount)
    \/ \E tid \in 1..(MaxTx + 1) : UpdateTransactionStatus(tid, "Confirmed")
    \/ ConfirmDebit

SpecStale == Init /\ [][StaleNext]_vars

\* the engine with a fairly scheduled loop task: the runtime keeps polling
\* the spawned task, the timer keeps firing and measure_bandwidth returns
LiveEngine == Init /\ [][EngineStoreNext]_vars /\ WF_vars(Tick)

\* snapshots of the metrics taken while a loop ticks
SnapshotNext ==
    \/ \E in \in WalletInputs : CreateWallet(in.currency_type, in.key)
    \/ \E id \in KnownIds : DeleteWallet(id)
    \/ \E l \in LoopIds, id \in KnownIds : StartMonitoring(l, id)
    \/ Tick
    \/ GetMetrics

SpecSnapshot == Init /\ [][SnapshotNext]_vars

\* histories asked for while transactions are created and updated
HistoryNext ==
    \/ \E in \in WalletInputs : CreateWallet(in.currency_type, in.key)
    \/ \E id \in KnownIds, b \in Balances : UpdateWalletBalance(id, b)
    \/ \E from_wallet \in CallerWallets, to \in Addresses, amount \in ConfirmAmounts :
          CreateTransaction(from_wallet, to, amount)
    \/ \E tid \in 1..(MaxTx + 1) : UpdateTransactionStatus(tid, "Failed")
    \/ \E a \in HistoryAddresses : GetTransactionHistory(a)

SpecHistory == Init /\ [][HistoryNext]_vars

\* balances set by callers
BalanceNext ==
    \/ \E in \in WalletInputs : CreateWallet(in.currency_type, in.key)
    \/ \E id \in KnownIds : DeleteWallet(id)
    \/ \E id \in KnownIds, v \in AnyBalances : UpdateWalletBalance(id, v)
    \/ \E from_wallet \in CallerWallets, amount \in ConfirmAmounts :
          CreateTransaction(from_wallet, ExternalAddress, amount)

SpecBalance == Init /\ [][BalanceNext]_vars

\* the total asked for while the loop ticks and the rate is changed
TotalsNext ==
    \/ \E in \in WalletInputs : CreateWallet(in.currency_type, in.key)
    \/ \E id \in KnownIds : DeleteWallet(id)
    \/ \E r \in Rates : UpdateRewardRate(r)
    \/ \E l \in LoopIds, id \in KnownIds : StartMonitoring(l, id)
    \/ Tick
    \/ CalculateTotalRewards

SpecTotals == Init /\ [][TotalsNext]_vars

\* the engine with its reads, over wallets that callers create, set and
\* delete
MetricsNext ==
    \/ CreateWallet("Bitcoin", <<10>>)
    \/ \E id \in KnownIds : DeleteWallet(id)
    \/ \E id \in KnownIds, b \in Balances : UpdateWalletBalance(id, b)
    \/ EngineNext
    \/ GetMetrics
    \/ CalculateTotalRewards

SpecMetrics == Init /\ [][MetricsNext]_vars

\* ------------------------------------------------------------ properties
\* a step in which update_transaction_status runs its loop over the wallets
ConfirmStep == uts.pc = "wallets" /\ uts'.pc = "idle"

\* amount + fee of a transaction, the fee counted as 0 when absent
AmountPlusFee(t) == t.amount + (IF t.fee = None THEN 0 ELSE t.fee[1])

\* C1: when update_transaction_status(id, Confirmed) runs its loop over the
\* wallets, every stored wallet whose address equals the transaction's
\* from_wallet loses exactly amount + fee (fee counted as 0 when absent),
\* every other wallet keeps its balance, and no wallet appears or disappears.
C1_ConfirmDebitsSenders ==
    [][ConfirmStep =>
        LET t == transactions[uts.idx]
        IN /\ DOMAIN wallets' = DOMAIN wallets
           /\ \A id \in DOMAIN wallets :
                 wallets'[id].balance =
                    IF wallets[id].address = t.from_wallet
                    THEN wallets[id].balance - AmountPlusFee(t)
                    ELSE wallets[id].balance]_vars

\* after the only confirmation so far, the sender of the only transaction
\* holds a set balance minus amount + fee, while a stored wallet with another
\* address still holds the set balance
C1_Witness ==
    /\ confirmations = 1
    /\ uts.pc = "idle"
    /\ Len(transactions) = 1
    /\ \E a, b \in DOMAIN wallets, v \in Balances :
          /\ wallets[a].address = transactions[1].from_wallet
          /\ wallets[b].address # transactions[1].from_wallet
          /\ wallets[a].balance = v - (transactions[1].amount + ExampleFee)
          /\ wallets[b].balance = v

\* C2: confirmation is not idempotent: a Confirmed update of a known
\* transaction goes on to the debit loop whatever status the transaction had,
\* and when the transaction was already Confirmed the loop takes amount + fee
\* from every sender wallet once more, so k confirmations debit k times.
C2_ConfirmationNotIdempotent ==
    [][/\ \A tid \in 1..MaxTx :
             (UpdateTransactionStatus(tid, "Confirmed")
                 /\ FindTx(transactions, tid) # 0)
             => /\ uts'.pc = "wallets"
                /\ uts'.idx = FindTx(transactions, tid)
       /\ (ConfirmStep /\ uts.previous = "Confirmed")
             => \A id \in DOMAIN wallets :
                   wallets[id].address = transactions[uts.idx].from_wallet
                   => wallets'[id].balance
                         = wallets[id].balance - AmountPlusFee(transactions[uts.idx])
      ]_vars

\* the only transaction was confirmed twice and its sender holds a set
\* balance minus 2 x (amount + fee)
C2_Witness ==
    /\ confirmations = 2
    /\ uts.pc = "idle"
    /\ Len(transactions) = 1
    /\ transactions[1].status = "Confirmed"
    /\ \E id \in DOMAIN wallets, v \in Balances :
          /\ wallets[id].address = transactions[1].from_wallet
          /\ wallets[id].balance = v - 2 * (transactions[1].amount + ExampleFee)

\* C3: create_transaction returns InvalidInput exactly when amount <= 0 or
\* amount > from_wallet.balance (an amount equal to the balance is accepted),
\* and a call that fails appends nothing to the log and changes no wallet;
\* only a call that returns Ok appends.
C3_CreateRejects ==
    /\ [](\A from_wallet \in CallerWallets, amount \in Amounts :
            CreateTransactionResult(from_wallet, amount) = "InvalidInput"
               <=> (amount <= 0 \/ amount > from_wallet.balance))
    /\ [][\A from_wallet \in CallerWallets, to \in Addresses, amount \in Amounts :
            CreateTransaction(from_wallet, to, amount) =>
               /\ (amount <= 0 \/ amount > from_wallet.balance) =>
                     transactions' = transactions /\ wallets' = wallets
               /\ transactions' # transactions =>
                     CreateTransactionResult(from_wallet, amount) = "Ok"]_vars

\* the log holds a transaction accepted for the whole balance of a stored
\* wallet, and calls with a non-positive amount and with an amount above
\* the balance of a stored wallet are rejected in this state
C3_Witness ==
    /\ \E id \in DOMAIN wallets, i \in 1..Len(transactions) :
          /\ transactions[i].from_wallet = wallets[id].address
          /\ transactions[i].amount = wallets[id].balance
          /\ CreateTransactionResult(wallets[id], transactions[i].amount) = "Ok"
    /\ \E id \in DOMAIN wallets, amount \in Amounts :
          /\ amount > 0
          /\ amount > wallets[id].balance
          /\ CreateTransactionResult(wallets[id], amount) = "InvalidInput"
    /\ \E id \in DOMAIN wallets, amount \in Amounts :
          /\ amount <= 0
          /\ wallets[id].balance > 0
          /\ CreateTransactionResult(wallets[id], amount) = "InvalidInput"
    /\ Len(transactions) < MaxTx

\* C4: a successful create_transaction appends exactly one transaction to
\* the end of the log, Pending, with the address of from_wallet as sender,
\* the given recipient and amount and a fee, and changes no wallet; nothing
\* is reserved, so Pending transactions whose amounts together exceed the
\* sender's balance can pile up.
C4_CreateAppendsPending ==
    [][\A from_wallet \in CallerWallets, to \in Addresses, amount \in Amounts :
          (CreateTransaction(from_wallet, to, amount)
              /\ amount > 0 /\ amount <= from_wallet.balance) =>
             /\ Len(transactions') = Len(transactions) + 1
             /\ SubSeq(transactions', 1, Len(transactions)) = transactions
             /\ LET t == transactions'[Len(transactions')]
                IN /\ t.status = "Pending"
                   /\ t.from_wallet = from_wallet.address
                   /\ t.to_wallet = to
                   /\ t.amount = amount
                   /\ t.fee # None
             /\ wallets' = wallets]_vars

\* two Pending transactions from the address of a stored wallet ask together
\* for more than the wallet holds
C4_Witness ==
    \E id \in DOMAIN wallets, i, j \in 1..Len(transactions) :
        /\ i # j
        /\ transactions[i].status = "Pending"
        /\ transactions[j].status = "Pending"
        /\ transactions[i].from_wallet = wallets[id].address
        /\ transactions[j].from_wallet = wallets[id].address
        /\ wallets[id].balance > 0
        /\ transactions[i].amount <= wallets[id].balance
        /\ transactions[j].amount <= wallets[id].balance
        /\ transactions[i].amount + transactions[j].amount > wallets[id].balance

\* C5: no step of update_transaction_status(id, Failed) changes a wallet,
\* whatever the transaction and whatever its status before the call.
C5_FailedKeepsBalances ==
    [][((\E tid \in 1..(MaxTx + 1) : UpdateTransactionStatus(tid, "Failed"))
        \/ (ConfirmStep /\ uts.status = "Failed"))
       => wallets' = wallets]_vars

\* the only transaction was confirmed once and is Failed now, and its sender
\* still holds what the one confirmation left
C5_Witness ==
    /\ confirmations = 1
    /\ uts.pc = "idle"
    /\ Len(transactions) = 1
    /\ transactions[1].status = "Failed"
    /\ \E id \in DOMAIN wallets, v \in Balances :
          /\ wallets[id].address = transactions[1].from_wallet
          /\ wallets[id].balance = v - (transactions[1].amount + ExampleFee)

\* C6: where balances move only by reward ticks and by confirming
\* transactions that create_transaction accepted, every stored wallet's
\* balance is >= 0.
C6_BalancesNonNegative ==
    \A id \in DOMAIN wallets : wallets[id].balance >= 0

\* C7: Confirmed and Failed are terminal: no step changes the status of a
\* logged transaction that is Confirmed or Failed.
C7_TerminalStatuses ==
    [][\A i \in 1..Len(transactions) :
          transactions[i].status \in {"Confirmed", "Failed"}
          => transactions'[i].status = transactions[i].status]_vars

\* the reward the claim expects for one sample: (sample / 1 MiB) x rate
ExpectedReward(sample, rate) == (sample \div MiB) * rate

RECURSIVE ExpectedRewards(_, _)
ExpectedRewards(samples, rate) ==
    IF samples = <<>> THEN 0
    ELSE ExpectedReward(Head(samples), rate) + ExpectedRewards(Tail(samples), rate)

\* C8: between two ticks of the one loop, when every sample so far met the
\* loop's min_bandwidth and the monitored wallet is stored (nothing but the
\* loop moves balances here, and a stored wallet was never deleted),
\* total_bytes_shared is the sum of the samples, uptime is N x interval and
\* the wallet's balance has grown from 0 by the sum of (sample / 1 MiB) x rate.
C8_TicksAccumulate ==
    \A l \in LoopIds :
        (/\ loops[l].pc = "tick"
         /\ loops[l].wallet_id \in DOMAIN wallets
         /\ \A k \in 1..Len(sampleLog[l]) :
               sampleLog[l][k] >= loops[l].min_bandwidth)
        => /\ metrics.total_bytes_shared = SumSeq(sampleLog[l])
           /\ metrics.uptime = Len(sampleLog[l]) * IntervalSecs
           /\ wallets[loops[l].wallet_id].balance
                 = ExpectedRewards(sampleLog[l], loops[l].reward_rate)

\* two ticks of 2 MiB and 1 MiB at the default rate and threshold: 3 MiB
\* shared, 120 s up, 0.0003 credited
C8_Witness ==
    \E l \in LoopIds :
        /\ loops[l].pc = "tick"
        /\ sampleLog[l] = <<2 * MiB, MiB>>
        /\ loops[l].reward_rate = DefaultRewardRate
        /\ loops[l].min_bandwidth = DefaultMinBandwidth
        /\ loops[l].wallet_id \in DOMAIN wallets
        /\ metrics.total_bytes_shared = 3 * MiB
        /\ metrics.uptime = 2 * IntervalSecs
        /\ wallets[loops[l].wallet_id].balance = 3

\* C9: the step of a tick that takes the sample adds it to
\* total_bytes_shared and the interval to uptime; when the sample is below
\* the loop's min_bandwidth the tick ends there, with last_reward and every
\* wallet unchanged; when the sample equals min_bandwidth the tick goes on to
\* apply the reward.
C9_BelowMinimumNoReward ==
    [][\A l \in LoopIds, bytes \in MeasureBandwidth :
          TickMeasure(l, bytes) =>
             /\ metrics'.total_bytes_shared = metrics.total_bytes_shared + bytes
             /\ metrics'.uptime = metrics.uptime + IntervalSecs
             /\ bytes < loops[l].min_bandwidth =>
                   /\ metrics'.last_reward = metrics.last_reward
                   /\ wallets' = wallets
                   /\ loops'[l].pc = "tick"
             /\ bytes = loops[l].min_bandwidth =>
                   /\ loops'[l].pc = "get_wallet"
                   /\ loops'[l].bytes_this_interval = bytes]_vars

\* a first sample equal to the threshold was rewarded, a second one below
\* it was counted but left the balance and last_reward as the first tick
\* set them
C9_Witness ==
    \E l \in LoopIds :
        /\ loops[l].pc = "tick"
        /\ loops[l].min_bandwidth = 2 * MiB
        /\ sampleLog[l] = <<2 * MiB, MiB>>
        /\ loops[l].reward_rate = DefaultRewardRate
        /\ loops[l].wallet_id \in DOMAIN wallets
        /\ wallets[loops[l].wallet_id].balance = 2
        /\ metrics.last_reward = Some(1)
        /\ now = 2
        /\ metrics.total_bytes_shared = 3 * MiB
        /\ metrics.uptime = 2 * IntervalSecs

\* C10: last_reward advances only in a tick whose balance-set on the
\* monitored wallet succeeded: a step that changes last_reward is the
\* update step of a loop whose wallet is stored at that moment.
C10_LastRewardOnlyOnSuccess ==
    [][metrics'.last_reward # metrics.last_reward =>
          \E l \in LoopIds :
             /\ loops[l].pc = "update"
             /\ loops[l].wallet_id \in DOMAIN wallets]_vars

\* the places a running loop task can be at
RunningPcs == {"tick", "write", "measure", "get_wallet", "update"}

\* C11: a loop launched by start_monitoring never leaves the running places,
\* whatever operation runs and whether or not its wallet lookups and balance
\* updates succeed; and with the task fairly scheduled it goes on ticking:
\* from any moment after the launch it reaches the end of every tick the
\* clock allows, each tick having added its sample to total_bytes_shared and
\* the interval to uptime.
C11_LoopRunsForever ==
    /\ [][\A l \in LoopIds :
            loops[l].pc # "idle" => loops'[l].pc \in RunningPcs]_vars
    /\ \A l \in LoopIds :
          (loops[l].pc # "idle") ~>
             (/\ loops[l].pc = "tick"
              /\ now = MaxTicks
              /\ Len(sampleLog[l]) = MaxTicks
              /\ metrics.uptime = MaxTicks * IntervalSecs
              /\ metrics.total_bytes_shared = SumSeq(sampleLog[l]))

\* the loop's wallet was created, rewarded in an earlier tick and deleted;
\* a later tick went by without a reward and the loop waits for the timer
\* again, all ticks counted
C11_Witness ==
    \E l \in LoopIds :
        /\ loops[l].pc = "tick"
        /\ loops[l].wallet_id \in KnownIds \ DOMAIN wallets
        /\ loops[l].wallet_id # 0
        /\ metrics.last_reward # None
        /\ metrics.last_reward[1] < now
        /\ Len(sampleLog[l]) = now
        /\ metrics.uptime = now * IntervalSecs

\* C12: a get_metrics call that runs while a loop ticks returns the metrics
\* exactly as the last finished tick left them (as new() left them when no
\* tick has finished): never the counters of a tick that has not yet come
\* to its end.
C12_SnapshotsAreWhole ==
    [][GetMetrics => ret'.get_metrics = Some(committed)]_vars

\* a tick is under way, the counters already hold its sample but its reward
\* is not applied yet, and the snapshot last returned is the metrics of the
\* tick before
C12_Witness ==
    \E l \in LoopIds :
        /\ loops[l].pc = "update"
        /\ metrics.uptime = 2 * IntervalSecs
        /\ ret.get_metrics # None
        /\ ret.get_metrics[1].uptime = IntervalSecs
        /\ ret.get_metrics[1].last_reward = Some(1)
        /\ ret.get_metrics[1] = committed
        /\ metrics # committed

\* a logged transaction without its status
Frozen(t) == [t EXCEPT !.status = "Pending"]

\* C13: the log is append-only except for status: no step shortens or
\* reorders it, no step changes the id, sender, recipient, amount, currency,
\* timestamp or fee of a logged transaction, and a step that changes a logged
\* transaction at all is a step of update_transaction_status.
C13_LogAppendOnly ==
    [][/\ Len(transactions') >= Len(transactions)
       /\ \A i \in 1..Len(transactions) :
             Frozen(transactions'[i]) = Frozen(transactions[i])
       /\ (\E i \in 1..Len(transactions) : transactions'[i] # transactions[i])
             => \E tid \in 1..MaxTx, status \in Statuses :
                   UpdateTransactionStatus(tid, status)]_vars

\* two logged transactions in the order of their creation, the first
\* Confirmed and the second Failed, both with the amount and fee they were
\* created with
C13_Witness ==
    /\ Len(transactions) = 2
    /\ transactions[1].id = 1
    /\ transactions[2].id = 2
    /\ transactions[1].status = "Confirmed"
    /\ transactions[2].status = "Failed"
    /\ \A i \in 1..2 :
          /\ transactions[i].amount \in ConfirmAmounts
          /\ transactions[i].fee = Some(ExampleFee)
          /\ transactions[i].to_wallet = ExternalAddress

\* no stored wallet has the address
Orphaned(address) == \A id \in DOMAIN wallets : wallets[id].address # address

\* C14: delete_wallet(id) returns NotFound exactly when id is not stored and
\* then changes nothing; otherwise it removes that wallet and no other,
\* get_wallet(id) fails afterwards, and the log and with it every history
\* stay as they were.  A transaction whose sender address is left without a
\* stored wallet (keys are drawn at random, so the deleted wallet was the only
\* one with its address) is still found by update_transaction_status, and
\* confirming it changes no wallet.
C14_DeleteKeepsLog ==
    /\ [](\A id \in KnownIds :
            FoundResult(wallets, id) = "NotFound" <=> id \notin DOMAIN wallets)
    /\ [][\A id \in KnownIds :
            DeleteWallet(id) =>
               /\ transactions' = transactions
               /\ \A a \in HistoryAddresses :
                     TransactionHistory(transactions', a)
                        = TransactionHistory(transactions, a)
               /\ IF id \in DOMAIN wallets
                  THEN /\ DOMAIN wallets' = DOMAIN wallets \ {id}
                       /\ \A o \in DOMAIN wallets' : wallets'[o] = wallets[o]
                       /\ GetWallet(wallets', id) = None
                  ELSE wallets' = wallets]_vars
    /\ [](\A i \in 1..Len(transactions) :
            FindTx(transactions, transactions[i].id) = i)
    /\ [][(/\ ConfirmStep
           /\ uts.status = "Confirmed"
           /\ Orphaned(transactions[uts.idx].from_wallet))
          => wallets' = wallets]_vars

\* one of two wallets was deleted; the transaction sent from its address is
\* still in the history of that address, its confirmation has found it and
\* set it Confirmed and is about to run the loop over the wallets, where the
\* one wallet that remains holds what it was given
C14_Witness ==
    /\ nextWalletId = 3
    /\ uts.pc = "wallets"
    /\ uts.status = "Confirmed"
    /\ confirmations = 0
    /\ \E id \in DOMAIN wallets, gone \in KnownIds \ DOMAIN wallets :
          /\ gone # 0
          /\ DOMAIN wallets = {id}
          /\ wallets[id].balance \in Balances
          /\ Len(transactions) = 1
          /\ transactions[1].status = "Confirmed"
          /\ Orphaned(transactions[1].from_wallet)
          /\ TransactionHistory(transactions, transactions[1].from_wallet)
                = transactions

\* the address is the sender or the recipient of the transaction
Matches(t, address) == t.from_wallet = address \/ t.to_wallet = address

\* C15: get_transaction_history(address) returns exactly the logged
\* transactions that have the address as sender or recipient, each once and
\* in the order of the log (the k-th returned is the k-th matching one), and
\* changes nothing of the store or the engine.
C15_HistoryIsFilteredLog ==
    [][\A a \in HistoryAddresses :
          GetTransactionHistory(a) =>
             LET r    == ret'.get_transaction_history[1]
                 idxs == {i \in 1..Len(transactions) : Matches(transactions[i], a)}
             IN /\ Len(r) = Cardinality(idxs)
                /\ \A k \in 1..Len(r) :
                      \E i \in idxs :
                         /\ r[k] = transactions[i]
                         /\ Cardinality({j \in idxs : j < i}) = k - 1
                /\ wallets' = wallets
                /\ transactions' = transactions
                /\ metrics' = metrics
                /\ reward_rate' = reward_rate
                /\ min_bandwidth' = min_bandwidth]_vars

\* the log holds a transaction the address has no part in followed by one
\* it receives, and the history returned for the address is the second alone
C15_Witness ==
    /\ Len(transactions) = 2
    /\ ret.get_transaction_history # None
    /\ \E a \in HistoryAddresses :
          /\ ~Matches(transactions[1], a)
          /\ transactions[2].to_wallet = a
          /\ transactions[2].from_wallet # a
          /\ ret.get_transaction_history[1] = <<transactions[2]>>

\* two-byte keys over bytes that share high or low halves
SampleKeys == {<<a, b>> : a, b \in {0, 10, 160, 255}}

\* C16: create_wallet stores one new wallet and changes no other: its id was
\* never handed out before (not even to a wallet deleted since), its balance
\* is 0, get_wallet(id) returns it, and its address is the hex encoding of its
\* public key, under which different keys have different addresses.
C16_CreateWalletFresh ==
    /\ [][\A in \in WalletInputs :
            CreateWallet(in.currency_type, in.key) =>
               \E id \in DOMAIN wallets' \ DOMAIN wallets :
                  /\ DOMAIN wallets' = DOMAIN wallets \cup {id}
                  /\ id \notin KnownIds
                  /\ wallets'[id].id = id
                  /\ wallets'[id].balance = 0
                  /\ wallets'[id].public_key = in.key
                  /\ wallets'[id].address = HexEncode(in.key)
                  /\ GetWallet(wallets', id) = Some(wallets'[id])
                  /\ \A o \in DOMAIN wallets : wallets'[o] = wallets[o]]_vars
    /\ [](\A id \in DOMAIN wallets :
            /\ id \in KnownIds
            /\ wallets[id].address = HexEncode(wallets[id].public_key))
    /\ [](\A k1, k2 \in PublicKeys \cup SampleKeys :
            k1 # k2 => HexEncode(k1) # HexEncode(k2))

\* the first wallet was deleted and a second created after it: it has the
\* next id, balance 0 and the address of its own key
C16_Witness ==
    /\ nextWalletId = 3
    /\ DOMAIN wallets = {2}
    /\ wallets[2].balance = 0
    /\ wallets[2].public_key = <<160>>
    /\ wallets[2].address = <<"a", "0">>

\* C17: update_wallet_balance(id, v) on a stored wallet sets its balance to
\* v, negative or not, and changes nothing else of it and no other wallet;
\* on an id that is not stored it returns NotFound and changes no wallet.
C17_BalanceSetUnchecked ==
    /\ [](\A id \in KnownIds, v \in AnyBalances :
            /\ FoundResult(wallets, id) = "Ok" <=> id \in DOMAIN wallets
            /\ id \notin DOMAIN wallets => SetBalance(wallets, id, v) = wallets
            /\ id \in DOMAIN wallets =>
                  SetBalance(wallets, id, v)
                     = [wallets EXCEPT ![id] = [wallets[id] EXCEPT !.balance = v]])
    /\ [][\A id \in KnownIds, v \in AnyBalances :
            UpdateWalletBalance(id, v) =>
               /\ DOMAIN wallets' = DOMAIN wallets
               /\ \A o \in DOMAIN wallets :
                     wallets'[o] = IF o = id
                                   THEN [wallets[o] EXCEPT !.balance = v]
                                   ELSE wallets[o]
               /\ transactions' = transactions]_vars

\* one wallet was set to a negative balance while the other keeps the
\* positive one it was given
C17_Witness ==
    \E a, b \in DOMAIN wallets :
        /\ wallets[a].balance = -1
        /\ wallets[b].balance = 2
        /\ -1 \in AnyBalances

\* a step of a tick that writes the metrics
TickWrites ==
    \E l \in LoopIds :
        \/ \E bytes \in MeasureBandwidth : TickMeasure(l, bytes)
        \/ TickUpdate(l)

\* C18: no step lowers total_bytes_shared or uptime or changes start_time,
\* and a step that changes any field of the metrics is a step of a loop's
\* tick: not get_metrics, calculate_total_rewards, update_reward_rate,
\* update_min_bandwidth or start_monitoring, and not create_wallet,
\* delete_wallet or update_wallet_balance of the Ledger Store.
C18_MetricsMonotone ==
    [][/\ metrics'.total_bytes_shared >= metrics.total_bytes_shared
       /\ metrics'.uptime >= metrics.uptime
       /\ metrics'.start_time = metrics.start_time
       /\ metrics' # metrics => TickWrites]_vars

\* two ticks have been counted, and around them the rate and the threshold
\* were changed, a snapshot was taken and a balance was set by a caller
C18_Witness ==
    /\ metrics.total_bytes_shared = 3 * MiB
    /\ metrics.uptime = 2 * IntervalSecs
    /\ metrics.start_time = 0
    /\ reward_rate # DefaultRewardRate
    /\ min_bandwidth # DefaultMinBandwidth
    /\ ret.get_metrics # None
    /\ ret.get_metrics[1].uptime = IntervalSecs
    /\ \E id \in DOMAIN wallets : wallets[id].balance \in Balances

\* C19: update_reward_rate(r) returns InvalidInput exactly when r < 0 (0 is
\* accepted) and update_min_bandwidth(m) exactly when m = 0; a call that
\* fails leaves the stored value as it was, a call that succeeds stores the
\* new one, and neither touches the other setting.
C19_RateAndThresholdChecked ==
    /\ [](\A r \in Rates \cup {DefaultRewardRate} :
            UpdateRewardRateResult(r) = "InvalidInput" <=> r < 0)
    /\ [](\A m \in MinBandwidths \cup {DefaultMinBandwidth} :
            UpdateMinBandwidthResult(m) = "InvalidInput" <=> m = 0)
    /\ [][\A r \in Rates :
            UpdateRewardRate(r) =>
               /\ reward_rate' = IF r < 0 THEN reward_rate ELSE r
               /\ min_bandwidth' = min_bandwidth]_vars
    /\ [][\A m \in MinBandwidths :
            UpdateMinBandwidth(m) =>
               /\ min_bandwidth' = IF m = 0 THEN min_bandwidth ELSE m
               /\ reward_rate' = reward_rate]_vars

\* rate 0 and a threshold of 2 MiB were stored after a loop was started with
\* the defaults
C19_Witness ==
    /\ reward_rate = 0
    /\ 0 \in Rates
    /\ min_bandwidth = 2 * MiB
    /\ \E l \in LoopIds :
          /\ loops[l].pc # "idle"
          /\ loops[l].reward_rate = DefaultRewardRate
          /\ loops[l].min_bandwidth = DefaultMinBandwidth

\* C20: calculate_total_rewards returns (total_bytes_shared / 1 MiB) x the
\* reward_rate the manager holds at the time of the call, whatever the rates
\* the ticks were rewarded at and whether or not they were rewarded; it is
\* not the sum of the rewards credited.
C20_TotalIsRecomputed ==
    [][CalculateTotalRewards =>
          ret'.calculate_total_rewards
             = Some((metrics.total_bytes_shared \div MiB) * reward_rate)]_vars

\* two ticks credited 0.0003 to the loop's wallet at the rate the loop was
\* started with; the rate was then set to 0 and calculate_total_rewards
\* returned 0
C20_Witness ==
    \E l \in LoopIds :
        /\ loops[l].pc = "tick"
        /\ loops[l].reward_rate = DefaultRewardRate
        /\ sampleLog[l] = <<2 * MiB, MiB>>
        /\ loops[l].wallet_id \in DOMAIN wallets
        /\ wallets[loops[l].wallet_id].balance = 3
        /\ metrics.total_bytes_shared = 3 * MiB
        /\ reward_rate = 0
        /\ ret.calculate_total_rewards = Some(0)

\* ------------------------------------------------------------------ C21
\* the stored balance of a wallet is above what all rewards and debits
\* applied so far add up to: a write has discarded a debit
DebitDiscarded(id) == id \in DOMAIN wallets /\ wallets[id].balance > ledger[id]

\* C21: a tick reads the balance b of its wallet in one step and writes
\* b + reward in a later step, whatever the store holds by then; so a
\* confirmation that debits the wallet between the two steps is overwritten
\* and the wallet ends with b + reward (the witness is that interleaving).
C21_TickWritesStaleBalance ==
    /\ [][\A l \in LoopIds :
            (TickGetWallet(l) /\ loops[l].wallet_id \in DOMAIN wallets) =>
                loops'[l].balance = wallets[loops[l].wallet_id].balance]_vars
    /\ [][\A l \in LoopIds :
            (TickUpdate(l) /\ loops[l].wallet_id \in DOMAIN wallets) =>
                wallets'[loops[l].wallet_id].balance =
                    loops[l].balance
                    + ExpectedReward(loops[l].bytes_this_interval,
                                     loops[l].reward_rate)]_vars

\* the loop read b = 2 (the reward of its first tick), the transaction of
\* amount 2 and fee 10 sent by its wallet was confirmed, and the second tick
\* then wrote b + reward: the balance is the sum of all rewards, 12 above
\* what rewards and debit add up to
C21_Witness ==
    \E l \in LoopIds :
        /\ loops[l].pc = "tick"
        /\ Len(sampleLog[l]) = 2
        /\ uts.pc = "idle"
        /\ confirmations = 1
        /\ DebitDiscarded(loops[l].wallet_id)
        /\ LET w == wallets[loops[l].wallet_id]
           IN /\ w.balance = ExpectedRewards(sampleLog[l], loops[l].reward_rate)
              /\ \E i \in 1..Len(transactions) :
                    /\ transactions[i].status = "Confirmed"
                    /\ transactions[i].from_wallet = w.address
                    /\ ledger[w.id] = w.balance - AmountPlusFee(transactions[i])

\* ------------------------------------------------------------------ C22
\* the places where a tick waits on measure_bandwidth or on a call of the
\* Ledger Store
TickAwaits == {"measure", "get_wallet", "update"}

\* C22: no lock is held across a suspension point: a tick waiting on the
\* measurement or on a Ledger Store call does not hold the metrics lock, and
\* update_transaction_status waiting for the wallets lock does not hold the
\* lock of the log.
C22_NoLockAcrossAwait ==
    /\ \A l \in LoopIds : loops[l].pc \in TickAwaits => metricsLock # l
    /\ uts.pc = "wallets" => txLock = Free

\* ------------------------------------------------------------------ C23
\* a tick of the loop has begun and not yet reached the end of its iteration
InTick(l) == loops[l].pc \in {"write", "measure", "get_wallet", "update"}

\* C23: the ticks of a loop do not overlap: a tick begins only when no tick
\* of the loop is under way; it starts on the metrics only when the tick
\* before has finished with them and has no reward left to apply; and every
\* tick begun so far, but the one under way, has taken its sample.
C23_TicksSequential ==
    /\ [][\A l \in LoopIds : TickFire(l) => (~InTick(l) /\ InTick(l)')]_vars
    /\ [][\A l \in LoopIds :
            TickLock(l) => /\ metrics = committed
                           /\ loops[l].bytes_this_interval = 0
                           /\ Len(sampleLog[l]) = now - 1]_vars
    /\ [](\A l \in LoopIds :
            loops[l].pc \in RunningPcs =>
                Len(sampleLog[l]) = IF loops[l].pc \in {"write", "measure"}
                                    THEN now - 1 ELSE now)

\* the second tick is at its measurement, the first one finished with its
\* reward applied at time 1
C23_Witness ==
    \E l \in LoopIds :
        /\ now = 2
        /\ loops[l].pc = "measure"
        /\ Len(sampleLog[l]) = 1
        /\ metrics.last_reward = Some(1)
        /\ loops[l].wallet_id \in DOMAIN wallets
        /\ wallets[loops[l].wallet_id].balance
              = ExpectedRewards(sampleLog[l], loops[l].reward_rate)

\* ------------------------------------------------------------------ C24
\* how far the stored balance of a wallet is above what the rewards and
\* debits applied to it add up to
Discarded(ws, led, id) == ws[id].balance - led[id]

\* the samples of a loop whose reward has been written to the wallet
AppliedSamples(l) ==
    IF loops[l].pc \in {"get_wallet", "update"}
    THEN SubSeq(sampleLog[l], 1, Len(sampleLog[l]) - 1)
    ELSE sampleLog[l]

\* C24: a confirmation debits the balance that is stored when it runs, in
\* one step: it discards neither a reward already written nor an earlier
\* debit, so consecutive confirmations all count.  Only the write of a tick
\* discards anything, and only debits: the balance of the monitored wallet is
\* never below the rewards written minus amount + fee of every confirmation
\* completed, and never above the rewards written.
C24_ConfirmationDiscardsNothing ==
    /\ [][ConfirmStep =>
            \A id \in DOMAIN wallets :
                /\ id \in DOMAIN wallets'
                /\ Discarded(wallets', ledger', id) = Discarded(wallets, ledger, id)]_vars
    /\ [][(\A l \in LoopIds : ~TickUpdate(l)) =>
            \A id \in DOMAIN wallets :
                Discarded(wallets', ledger', id) = Discarded(wallets, ledger, id)]_vars
    /\ [](\A id \in DOMAIN wallets : Discarded(wallets, ledger, id) >= 0)
    /\ [](\A l \in LoopIds :
            (loops[l].pc \in RunningPcs /\ loops[l].wallet_id \in DOMAIN wallets) =>
                LET written == ExpectedRewards(AppliedSamples(l), loops[l].reward_rate)
                    balance == wallets[loops[l].wallet_id].balance
                IN /\ balance <= written
                   /\ balance >= written - confirmations * (2 + ExampleFee)
                   /\ ledger[loops[l].wallet_id]
                         = written - confirmations * (2 + ExampleFee))

\* two ticks have written their rewards and two confirmations have debited
\* the wallet since the first of them: the balance shows both rewards and
\* both debits
C24_Witness ==
    \E l \in LoopIds :
        /\ loops[l].pc = "tick"
        /\ Len(sampleLog[l]) = 2
        /\ confirmations = 2
        /\ uts.pc = "idle"
        /\ loops[l].wallet_id \in DOMAIN wallets
        /\ wallets[loops[l].wallet_id].balance
              = ExpectedRewards(sampleLog[l], loops[l].reward_rate)
                - 2 * (2 + ExampleFee)

\* ------------------------------------------------------------------ C25
\* C25: nothing deadlocks.  The lock of the log is held only by an
\* update_transaction_status that goes on to the wallets, the metrics lock
\* only by a tick between its measurement and the end of its iteration, and
\* the wallets lock is taken inside single steps only, so never held while
\* another lock is waited for.  With the tasks fairly scheduled every
\* confirmation under way returns and every tick under way reaches the end
\* of its iteration, so that each lock is free again for those waiting.
C25_NoDeadlock ==
    /\ [](txLock # Free <=> uts.pc = "wallets")
    /\ [](\A l \in LoopIds : metricsLock = l <=> loops[l].pc \in TickAwaits)
    /\ [](metricsLock \in LoopIds \cup {Free})
    /\ (uts.pc = "wallets") ~> (uts.pc = "idle")
    /\ \A l \in LoopIds : InTick(l) ~> (loops[l].pc = "tick")

\* a confirmation holds the lock of the log and waits for the wallets while
\* the tick holds the metrics lock and waits for the wallets as well
C25_Witness ==
    \E l \in LoopIds :
        /\ uts.pc = "wallets"
        /\ txLock # Free
        /\ loops[l].pc = "update"
        /\ metricsLock = l
        /\ now = 2

\* ------------------------------------------------------------------ C26
\* what a loop that rewards at rate the samples reaching min has credited
RECURSIVE CapturedRewards(_, _, _)
CapturedRewards(samples, rate, min) ==
    IF samples = <<>> THEN 0
    ELSE (IF Head(samples) >= min THEN ExpectedReward(Head(samples), rate) ELSE 0)
         + CapturedRewards(Tail(samples), rate, min)

\* C26: start_monitoring hands the loop the manager's reward_rate and
\* min_bandwidth of that moment; update_reward_rate and update_min_bandwidth
\* change nothing of a loop; each tick tests its sample against the loop's
\* threshold and credits at the loop's rate, so the wallet holds the rewards
\* at the captured values whatever the manager holds since; while
\* calculate_total_rewards and get_estimated_hourly_rewards compute with the
\* manager's rate at the time of the call.
C26_LoopKeepsCapturedValues ==
    /\ [][\A l \in LoopIds :
            (loops[l].pc = "idle" /\ loops'[l].pc # "idle") =>
                /\ loops'[l].reward_rate = reward_rate
                /\ loops'[l].min_bandwidth = min_bandwidth]_vars
    /\ [][(reward_rate' # reward_rate \/ min_bandwidth' # min_bandwidth) =>
            (loops' = loops /\ wallets' = wallets /\ metrics' = metrics)]_vars
    /\ [][\A l \in LoopIds :
            (loops[l].pc # "idle") =>
                /\ loops'[l].reward_rate = loops[l].reward_rate
                /\ loops'[l].min_bandwidth = loops[l].min_bandwidth]_vars
    /\ [][\A l \in LoopIds :
            (loops[l].pc = "measure" /\ loops'[l].pc # "measure") =>
                (loops'[l].pc = "get_wallet"
                    <=> sampleLog'[l][Len(sampleLog'[l])]
                            >= loops[l].min_bandwidth)]_vars
    /\ [](\A l \in LoopIds :
            (loops[l].pc \in RunningPcs /\ loops[l].wallet_id \in DOMAIN wallets) =>
                wallets[loops[l].wallet_id].balance
                    = CapturedRewards(AppliedSamples(l), loops[l].reward_rate,
                                      loops[l].min_bandwidth))
    /\ [][CalculateTotalRewards =>
            ret'.calculate_total_rewards
                = Some((metrics.total_bytes_shared \div MiB) * reward_rate)]_vars
    /\ [][GetEstimatedHourlyRewards =>
            ret'.get_estimated_hourly_rewards
                = Some((metrics.current_speed.bytes \div MiB)
                       * (3600 \div IntervalSecs) * reward_rate)]_vars

\* the loop runs at rate 0.0001 and threshold 1 MiB; the manager holds rate
\* 0.0002 since before the second tick began (the estimate returned between
\* the ticks shows it) and threshold 2 MiB; the second tick has passed its
\* sample of 1 MiB and is about to credit it
C26_Witness ==
    \E l \in LoopIds :
        /\ loops[l].pc = "update"
        /\ sampleLog[l] = <<MiB, MiB>>
        /\ loops[l].reward_rate = DefaultRewardRate
        /\ loops[l].min_bandwidth = DefaultMinBandwidth
        /\ reward_rate = 2
        /\ min_bandwidth = 2 * MiB
        /\ ret.get_estimated_hourly_rewards = Some(120)
        /\ loops[l].balance = 1

\* ------------------------------------------------------------------ C27
\* the value a caller holds is no longer what the store holds under its id
Stale(w) == GetWallet(wallets, w.id) # Some(w)

\* C27: create_transaction decides on the Wallet value it is passed alone:
\* for a held value w it accepts an amount exactly when 0 < amount <=
\* w.balance, whether the stored wallet has that balance, a lower one, or is
\* gone, and it touches no wallet.  Confirming a transaction created from a
\* value that was not the stored one debits amount + fee from every stored
\* wallet with the sender address whatever its balance, which leaves a
\* balance lower than the amount below zero, and changes nothing when no
\* stored wallet has the address.
C27_CreateChecksPassedWallet ==
    /\ [](\A w \in held, amount \in ConfirmAmounts :
            CreateTransactionResult(w, amount) = "Ok"
                <=> (amount > 0 /\ amount <= w.balance))
    /\ [][Len(transactions') > Len(transactions) =>
            LET t == transactions'[Len(transactions')]
            IN /\ \E w \in held : /\ t.from_wallet = w.address
                                  /\ t.amount > 0
                                  /\ t.amount <= w.balance
                                  /\ (Stale(w) <=> Len(transactions') \in staleTx')
               /\ wallets' = wallets]_vars
    /\ [][(ConfirmStep /\ uts.idx \in staleTx) =>
            LET t == transactions[uts.idx]
            IN /\ DOMAIN wallets' = DOMAIN wallets
               /\ \A id \in DOMAIN wallets :
                    IF wallets[id].address = t.from_wallet
                    THEN /\ wallets'[id].balance
                               = wallets[id].balance - AmountPlusFee(t)
                         /\ wallets[id].balance < t.amount
                               => wallets'[id].balance < 0
                    ELSE wallets'[id] = wallets[id]
               /\ Orphaned(t.from_wallet) => wallets' = wallets]_vars

\* the caller holds the wallet with balance 2; a first transaction of
\* amount 2 was confirmed, and a second one was created from the held value
\* when it was no longer the stored one; its confirmation has taken the
\* stored balance further down, to 2 less twice 12
C27_Witness ==
    \E i \in staleTx, w \in held :
        /\ confirmations = 2
        /\ \A j \in 1..Len(transactions) : transactions[j].status = "Confirmed"
        /\ Len(transactions) = 2
        /\ uts.pc = "idle"
        /\ transactions[i].status = "Confirmed"
        /\ transactions[i].amount = 2
        /\ transactions[i].from_wallet = w.address
        /\ w.balance = 2
        /\ w.id \in DOMAIN wallets
        /\ wallets[w.id].balance = 2 - 2 * (2 + ExampleFee)

====
